---- MODULE Spec2Model ----
(***************************************************************************)
(* Model of the popup manager of src/desktop/popup/manager.rs:             *)
(* PopupManager (unmapped list, tree list, grab-chain list), the shared    *)
(* PopupTree attached to every root surface, the recursive PopupNode       *)
(* algorithms, and the per-seat grab chain that grab_popup consults.       *)
(***************************************************************************)
EXTENDS Integers, Sequences, FiniteSets, TLC

(* ---------------------------------------------------------------------- *)
(* Bounds                                                                  *)
(* ---------------------------------------------------------------------- *)
NumPopups == 3       \* popup surfaces
NumRoots == 1        \* toplevel surfaces
MaxDestroyed == 2    \* surfaces the clients destroy in one run
MaxSerial == 3       \* grab_popup calls in one run
MaxGrabPopups == 2   \* popups created in a run that also takes grabs
MaxOffset == 1       \* largest coordinate of a placement offset
MaxLockPopups == 2   \* popups created in a run with two contexts

(* Surfaces are numbered: popups 1..NumPopups carry XDG_POPUP_ROLE, the    *)
(* surfaces after them are toplevels (no popup role).                      *)
NoSurface == 0
NoSerial == 0

Popups == 1..NumPopups
Roots == (NumPopups + 1)..(NumPopups + NumRoots)
Surfaces == Popups \cup Roots
Seat == "seat0"
Seats == {Seat}

\* the two contexts that reach a PopupTree: the owner of the PopupManager
\* and a holder of the root surface
Manager == "manager"
Holder == "holder"
Contexts == {Manager, Holder}
NoContext == "none"

\* Point<i32, Logical>: <<x, y>>
Origin == <<0, 0>>
Offsets == {<<x, y>> : x \in 0..MaxOffset, y \in (-MaxOffset)..0}

VARIABLES
    alive,            \* WlSurface liveness (IsAlive), per surface
    parent,           \* XdgPopupSurfaceData.parent, per popup (NoSurface = None)
    committed,        \* XdgPopupSurfaceData.committed, per popup
    tracked,          \* popups the protocol layer has handed to track_popup
    location,         \* PopupKind::location, per popup: its placement offset
    returned,         \* the last sequence popups_for_surface handed to a caller
    lock,             \* per root: the context that holds the mutex of its PopupTree
    pc,               \* per context: the call in progress and its position
    unmapped_popups,  \* PopupManager.unmapped_popups
    popup_trees,      \* PopupManager.popup_trees: handles, named by their root
    popup_grabs,      \* PopupManager.popup_grabs: handles, named by their seat
    attached,         \* root's data_map holds a PopupTree
    nodes,            \* contents of the PopupTree attached to each root
    has_chain,        \* seat's user_data holds a PopupGrabInner
    chain,            \* per seat: grabbed popups, most recent last
    dismissed,        \* per seat: popups that have left the chain while alive
    serials,          \* number of serials handed out so far
    events,           \* client-visible effects of the last call, in order
    last              \* the last call: operation, arguments, result

vars == <<alive, parent, committed, tracked, location, returned, lock, pc, unmapped_popups, popup_trees,
          popup_grabs, attached, nodes, has_chain, chain, dismissed, serials,
          events, last>>

envVars == <<alive, parent, committed, tracked>>
managerVars == <<unmapped_popups, popup_trees, popup_grabs>>
treeVars == <<attached, nodes>>
seatVars == <<has_chain, chain, dismissed>>
otherVars == <<location, returned, lock, pc>>
lockVars == <<lock, pc>>

(* ---------------------------------------------------------------------- *)
(* Sequence helpers (Vec operations used by the code)                      *)
(* ---------------------------------------------------------------------- *)
\* Vec::retain(keep)
Retain(s, keep(_)) == SelectSeq(s, keep)

RECURSIVE Reverse(_)
Reverse(s) == IF s = <<>> THEN <<>> ELSE Reverse(Tail(s)) \o <<Head(s)>>

Range(s) == {s[i] : i \in 1..Len(s)}

\* Vec::iter().position(pred): index of the first match, 0 when there is none
Position(s, x) ==
    IF \E i \in 1..Len(s) : s[i] = x
    THEN CHOOSE i \in 1..Len(s) : s[i] = x /\ \A j \in 1..(i - 1) : s[j] # x
    ELSE 0

\* mutant: the last element is removed, whatever the index
SwapRemove_DropsLast(s, i) == SubSeq(s, 1, Len(s) - 1)

\* Vec::swap_remove(i): the last element takes the place of the removed one
SwapRemove(s, i) ==
    IF i = Len(s) THEN SubSeq(s, 1, Len(s) - 1)
    ELSE [j \in 1..(Len(s) - 1) |-> IF j = i THEN s[Len(s)] ELSE s[j]]

(* ---------------------------------------------------------------------- *)
(* Events and call records                                                 *)
(* ---------------------------------------------------------------------- *)
Done(p) == [kind |-> "send_done", surface |-> p, code |-> "-"]
Detach(p) == [kind |-> "detach", surface |-> p, code |-> "-"]
PostError(p, c) == [kind |-> "post_error", surface |-> p, code |-> c]

Call(op, s, p, status, prev) ==
    [op |-> op, surface |-> s, popup |-> p, status |-> status, previous_serial |-> prev]

(* ---------------------------------------------------------------------- *)
(* PopupNode                                                               *)
(* ---------------------------------------------------------------------- *)
NewNode(p) == [surface |-> p, children |-> <<>>]

\* PopupNode::insert / the loop of PopupTree::insert over a child vector:
\* the first child (pre-order) that accepts the popup wins.
RECURSIVE NodeInsert(_, _, _), ChildrenInsert(_, _, _)
\* mutant: the popup becomes the first child of its parent's node
NodeInsert_Prepends(n, p, par) ==
    IF n.surface = par[p]
    THEN [ok |-> TRUE, node |-> [n EXCEPT !.children = <<NewNode(p)>> \o @]]
    ELSE LET r == ChildrenInsert(n.children, p, par)
         IN  [ok |-> r.ok, node |-> [n EXCEPT !.children = r.list]]

NodeInsert(n, p, par) ==
    IF n.surface = par[p]
    THEN [ok |-> TRUE, node |-> [n EXCEPT !.children = Append(@, NewNode(p))]]
    ELSE LET r == ChildrenInsert(n.children, p, par)
         IN  [ok |-> r.ok, node |-> [n EXCEPT !.children = r.list]]

ChildrenInsert(ch, p, par) ==
    IF ch = <<>> THEN [ok |-> FALSE, list |-> <<>>]
    ELSE LET r == NodeInsert(Head(ch), p, par)
         IN  IF r.ok THEN [ok |-> TRUE, list |-> <<r.node>> \o Tail(ch)]
             ELSE LET rest == ChildrenInsert(Tail(ch), p, par)
                  IN  [ok |-> rest.ok, list |-> <<Head(ch)>> \o rest.list]

\* PopupTree::insert
TreeInsert(forest, p, par) ==
    LET r == ChildrenInsert(forest, p, par)
    IN  IF r.ok THEN r.list ELSE Append(forest, NewNode(p))

\* PopupNode::send_done: children in reverse order first, then the node
RECURSIVE SendDone(_), SendDoneAll(_)
\* mutant: the children are notified in insertion order
SendDone_ForwardOrder(n) == SendDoneAll(n.children) \o <<Done(n.surface)>>

SendDone(n) == SendDoneAll(Reverse(n.children)) \o <<Done(n.surface)>>

SendDoneAll(ch) ==
    IF ch = <<>> THEN <<>> ELSE SendDone(Head(ch)) \o SendDoneAll(Tail(ch))

\* PopupNode::dismiss_popup. found is the function's return value; a match
\* below this node is removed from the child vector and reported as false.
RECURSIVE NodeDismiss(_, _), NodeChildrenDismiss(_, _)
NodeDismiss(n, p) ==
    IF n.surface = p
    THEN [found |-> TRUE, node |-> n, ev |-> SendDone(n)]
    ELSE LET r == NodeChildrenDismiss(n.children, p)
         IN  [found |-> FALSE, node |-> [n EXCEPT !.children = r.list], ev |-> r.ev]

\* the while loop of PopupNode::dismiss_popup over self.children
NodeChildrenDismiss(ch, p) ==
    IF ch = <<>> THEN [list |-> <<>>, ev |-> <<>>]
    ELSE LET r == NodeDismiss(Head(ch), p)
         IN  IF r.found
             THEN [list |-> Tail(ch), ev |-> r.ev \o <<Detach(Head(ch).surface)>>]
             ELSE LET rest == NodeChildrenDismiss(Tail(ch), p)
                  IN  [list |-> <<r.node>> \o rest.list, ev |-> r.ev \o rest.ev]

\* mutant: the children of the dismissed node take its place
RECURSIVE TreeDismiss_KeepsChildren(_, _)
TreeDismiss_KeepsChildren(forest, p) ==
    IF forest = <<>> THEN [list |-> <<>>, ev |-> <<>>]
    ELSE LET r == NodeDismiss(Head(forest), p)
         IN  IF r.found
             THEN [list |-> Head(forest).children \o Tail(forest),
                   ev |-> r.ev \o <<Detach(Head(forest).surface)>>]
             ELSE LET rest == TreeDismiss_KeepsChildren(Tail(forest), p)
                  IN  [list |-> <<r.node>> \o rest.list, ev |-> r.ev \o rest.ev]

\* PopupTree::dismiss_popup: the same loop over the tree's root nodes
RECURSIVE TreeDismiss(_, _)
TreeDismiss(forest, p) ==
    IF forest = <<>> THEN [list |-> <<>>, ev |-> <<>>]
    ELSE LET r == NodeDismiss(Head(forest), p)
         IN  IF r.found
             THEN [list |-> Tail(forest), ev |-> r.ev \o <<Detach(Head(forest).surface)>>]
             ELSE LET rest == TreeDismiss(Tail(forest), p)
                  IN  [list |-> <<r.node>> \o rest.list, ev |-> r.ev \o rest.ev]

\* PopupNode::cleanup: clean every child, then keep the children that are alive
RECURSIVE NodeCleanup(_, _), CleanupAll(_, _)
\* mutant: the children of a node are cleaned but never dropped
NodeCleanup_KeepsChildren(n, al) ==
    [n EXCEPT !.children = CleanupAll(n.children, al)]

NodeCleanup(n, al) ==
    LET keep(c) == al[c.surface]
    IN  [n EXCEPT !.children = Retain(CleanupAll(n.children, al), keep)]

CleanupAll(ch, al) ==
    IF ch = <<>> THEN <<>>
    ELSE <<NodeCleanup(Head(ch), al)>> \o CleanupAll(Tail(ch), al)

\* mutant: the retain predicate is negated
TreeCleanup_Inverted(forest, al) ==
    LET keep(c) == ~al[c.surface]
    IN  Retain(CleanupAll(forest, al), keep)

\* PopupTree::cleanup
TreeCleanup(forest, al) ==
    LET keep(c) == al[c.surface]
    IN  Retain(CleanupAll(forest, al), keep)

\* PopupTree::alive
TreeAlive(forest) == forest # <<>>

\* PopupNode::iter_popups_relative_to without the offsets: pre-order
RECURSIVE NodePopups(_), ForestPopups(_)
NodePopups(n) == <<n.surface>> \o ForestPopups(n.children)

ForestPopups(ch) ==
    IF ch = <<>> THEN <<>> ELSE NodePopups(Head(ch)) \o ForestPopups(Tail(ch))

\* PopupTree::iter_popups
IterPopups(forest) == ForestPopups(forest)

\* Point + Point
PointAdd(a, b) == <<a[1] + b[1], a[2] + b[2]>>

\* mutant: the children are placed relative to the caller's point
RECURSIVE IterPopupsRelativeTo_FlatChildren(_, _, _)
IterPopupsRelativeTo_FlatChildren(n, at, loc) ==
    LET relative_to == PointAdd(at, loc[n.surface])
        below[i \in 0..Len(n.children)] ==
            IF i = 0 THEN <<>>
            ELSE below[i - 1] \o IterPopupsRelativeTo_FlatChildren(n.children[i], at, loc)
    IN  <<[popup |-> n.surface, offset |-> relative_to]>> \o below[Len(n.children)]

\* PopupNode::iter_popups_relative_to: the node at loc + its own location,
\* then its children relative to that point, in order
RECURSIVE IterPopupsRelativeTo(_, _, _)
IterPopupsRelativeTo(n, at, loc) ==
    LET relative_to == PointAdd(at, loc[n.surface])
        below[i \in 0..Len(n.children)] ==
            IF i = 0 THEN <<>>
            ELSE below[i - 1] \o IterPopupsRelativeTo(n.children[i], relative_to, loc)
    IN  <<[popup |-> n.surface, offset |-> relative_to]>> \o below[Len(n.children)]

\* PopupTree::iter_popups with the offsets: every root node starts at (0, 0)
RECURSIVE IterPopupsWithOffsets(_, _)
IterPopupsWithOffsets(forest, loc) ==
    IF forest = <<>> THEN <<>>
    ELSE IterPopupsRelativeTo(Head(forest), Origin, loc)
         \o IterPopupsWithOffsets(Tail(forest), loc)

(* ---------------------------------------------------------------------- *)
(* Root resolution                                                         *)
(* ---------------------------------------------------------------------- *)
\* the while loop of find_popup_root_surface: climb while the surface has
\* the popup role
RECURSIVE ClimbToRoot(_, _)
ClimbToRoot(s, par) == IF s \in Popups THEN ClimbToRoot(par[s], par) ELSE s

\* find_popup_root_surface: NoSurface stands for Err(DeadResource)
FindPopupRootSurface(p, par) ==
    IF par[p] = NoSurface THEN NoSurface ELSE ClimbToRoot(par[p], par)

(* ---------------------------------------------------------------------- *)
(* PopupManager: pure parts                                                *)
(* ---------------------------------------------------------------------- *)
\* mutant: only a newly created tree is stored in the list
AddPopup_NoReregister(p, par, pt, att, nd) ==
    LET root == FindPopupRootSurface(p, par)
    IN  IF root = NoSurface
        THEN [status |-> "DeadResource", popup_trees |-> pt, attached |-> att, nodes |-> nd]
        ELSE [status |-> "Ok",
              popup_trees |-> IF ~att[root] THEN Append(pt, root) ELSE pt,
              attached |-> [att EXCEPT ![root] = TRUE],
              nodes |-> [nd EXCEPT ![root] = TreeInsert(nd[root], p, par)]]

\* PopupManager::add_popup
AddPopup(p, par, pt, att, nd) ==
    LET root == FindPopupRootSurface(p, par)
    IN  IF root = NoSurface
        THEN [status |-> "DeadResource", popup_trees |-> pt, attached |-> att, nodes |-> nd]
        ELSE LET pt1 == IF ~att[root] THEN Append(pt, root) ELSE pt
                 forest == nd[root]
                 pt2 == IF ~TreeAlive(forest) THEN Append(pt1, root) ELSE pt1
             IN  [status |-> "Ok",
                  popup_trees |-> pt2,
                  attached |-> [att EXCEPT ![root] = TRUE],
                  nodes |-> [nd EXCEPT ![root] = TreeInsert(forest, p, par)]]

\* the flat_map of find_popup over the registered trees
RECURSIVE TreesPopups(_, _)
TreesPopups(pt, nd) ==
    IF pt = <<>> THEN <<>> ELSE IterPopups(nd[Head(pt)]) \o TreesPopups(Tail(pt), nd)

\* mutant: only the unmapped list is searched
FindPopup_UnmappedOnly(s, um, pt, nd) ==
    IF Position(um, s) # 0 THEN s ELSE NoSurface

\* PopupManager::find_popup: NoSurface stands for None
FindPopup(s, um, pt, nd) ==
    IF Position(um, s) # 0 THEN s
    ELSE IF Position(TreesPopups(pt, nd), s) # 0 THEN s
    ELSE NoSurface

\* PopupManager::popups_for_surface
PopupsForSurface(r, att, nd) ==
    IF r \in Roots /\ att[r] THEN IterPopups(nd[r]) ELSE <<>>

\* PopupManager::popups_for_surface with the offsets
PopupsWithOffsets(r, att, nd, loc) ==
    IF r \in Roots /\ att[r] THEN IterPopupsWithOffsets(nd[r], loc) ELSE <<>>

\* mutant: the returned iterator walks the tree when it is consumed
IterItems_Lazy(it, att, nd, loc) == PopupsWithOffsets(it.root, att, nd, loc)

\* what a caller reads from a sequence popups_for_surface returned: the
\* vector collected under the lock, whatever the tree holds by now
IterItems(it, att, nd, loc) == it.items

\* mutant: the liveness of the root surface is not checked
ManagerDismiss_IgnoresLiveness(r, p, al, att, nd) ==
    IF att[r]
    THEN LET d == TreeDismiss(nd[r], p)
         IN  [status |-> "Ok", nodes |-> [nd EXCEPT ![r] = d.list], ev |-> d.ev]
    ELSE [status |-> "Ok", nodes |-> nd, ev |-> <<>>]

\* PopupManager::dismiss_popup
ManagerDismiss(r, p, al, att, nd) ==
    IF ~al[r] THEN [status |-> "DeadResource", nodes |-> nd, ev |-> <<>>]
    ELSE IF att[r]
         THEN LET d == TreeDismiss(nd[r], p)
              IN  [status |-> "Ok", nodes |-> [nd EXCEPT ![r] = d.list], ev |-> d.ev]
         ELSE [status |-> "Ok", nodes |-> nd, ev |-> <<>>]

\* PopupManager::cleanup, trees: every registered tree is cleaned
RECURSIVE CleanupTrees(_, _, _)
CleanupTrees(pt, nd, al) ==
    IF pt = <<>> THEN nd
    ELSE CleanupTrees(Tail(pt), [nd EXCEPT ![Head(pt)] = TreeCleanup(@, al)], al)

(* ---------------------------------------------------------------------- *)
(* Grab chain of a seat (PopupGrabInner)                                   *)
(* ---------------------------------------------------------------------- *)
ChainActive(c) == c # <<>>

ChainAlive(c) == c # <<>>

\* the chain's cleanup hook: grabs of dead popups leave the chain
ChainCleanup(c, d, al) ==
    LET keep(g) == al[g.popup]
    IN  [chain |-> Retain(c, keep),
         dismissed |-> d \cup {c[i].popup : i \in {j \in 1..Len(c) : ~al[c[j].popup]}}]

\* the chain's acceptance rule
ChainGrab(c, d, p, serial, par) ==
    LET tail == IF c = <<>> THEN NoSurface ELSE c[Len(c)].popup
        prev == IF c = <<>> THEN NoSerial ELSE c[Len(c)].serial
    IN  IF par[p] \in d /\ tail # par[p]
        THEN [status |-> "ParentDismissed", chain |-> c, previous_serial |-> NoSerial]
        ELSE IF c # <<>> /\ tail # par[p]
        THEN [status |-> "NotTheTopmostPopup", chain |-> c, previous_serial |-> NoSerial]
        ELSE [status |-> "Ok",
              chain |-> Append(c, [popup |-> p, serial |-> serial]),
              previous_serial |-> prev]

\* a chain that may also reject a grab for another reason, unchanged
ChainGrabOrVeto(c, d, p, serial, par, veto) ==
    IF veto THEN [status |-> "Other", chain |-> c, previous_serial |-> NoSerial]
    ELSE ChainGrab(c, d, p, serial, par)

(* ---------------------------------------------------------------------- *)
(* grab_popup: pure parts                                                  *)
(* ---------------------------------------------------------------------- *)
\* PopupFocus::xdg_popup of the grab target: NoSurface stands for None
XdgPopup(target, al) ==
    IF target \in Popups /\ al[target] THEN target ELSE NoSurface

\* mutant: the committed flag is not consulted
GrabValidate_NoCommittedCheck(target, par, al, com) ==
    IF XdgPopup(target, al) = NoSurface THEN "NoPopup"
    ELSE IF FindPopupRootSurface(target, par) = NoSurface THEN "DeadResource"
    ELSE "Ok"

\* the checks of grab_popup that run before the seat is touched
GrabValidate(target, par, al, com) ==
    IF XdgPopup(target, al) = NoSurface THEN "NoPopup"
    ELSE IF FindPopupRootSurface(target, par) = NoSurface THEN "DeadResource"
    ELSE IF com[target] THEN "InvalidGrab"
    ELSE "Ok"

\* mutant: the chain is stored with the manager on every call
GrabRegister_Always(pg, seat, c) == Append(pg, seat)

\* the chain is stored with the manager when it is not active
GrabRegister(pg, seat, c) ==
    IF ~ChainActive(c) THEN Append(pg, seat) ELSE pg

\* mutant: the two match arms are swapped
GrabErrorEffects_Swapped(err, root, p, al, att, nd) ==
    IF err = "NotTheTopmostPopup"
    THEN LET d == ManagerDismiss(root, p, al, att, nd)
         IN  [nodes |-> d.nodes, ev |-> d.ev]
    ELSE IF err = "ParentDismissed"
    THEN [nodes |-> nd, ev |-> <<PostError(p, "NotTheTopmostPopup")>>]
    ELSE [nodes |-> nd, ev |-> <<>>]

\* mutant: a ParentDismissed rejection is only returned
GrabErrorEffects_NoDismiss(err, root, p, al, att, nd) ==
    IF err = "NotTheTopmostPopup"
    THEN [nodes |-> nd, ev |-> <<PostError(p, "NotTheTopmostPopup")>>]
    ELSE [nodes |-> nd, ev |-> <<>>]

\* what grab_popup does with a rejection of the chain
GrabErrorEffects(err, root, p, al, att, nd) ==
    IF err = "ParentDismissed"
    THEN LET d == ManagerDismiss(root, p, al, att, nd)
         IN  [nodes |-> d.nodes, ev |-> d.ev]
    ELSE IF err = "NotTheTopmostPopup"
    THEN [nodes |-> nd, ev |-> <<PostError(p, "NotTheTopmostPopup")>>]
    ELSE [nodes |-> nd, ev |-> <<>>]

\* mutant: the serial of the new grab is handed on as the previous one
GrabPreviousSerial_New(res, serial) == serial

\* the previous serial handed to PopupGrab::new
GrabPreviousSerial(res, serial) == res.previous_serial

(* ---------------------------------------------------------------------- *)
(* A call in progress: the tree operations it still has to make            *)
(* ---------------------------------------------------------------------- *)
\* one call of a PopupTree method
TreeOp(kind, root) == [kind |-> kind, root |-> root]

Idle == [stage |-> "idle", handler |-> "none", popup |-> NoSurface,
         todo |-> <<>>, seen |-> <<>>, kept |-> <<>>]

\* a call that is about to lock the tree of its first operation
Calling(handler, p, todo) ==
    [stage |-> "lock", handler |-> handler, popup |-> p,
     todo |-> todo, seen |-> <<>>, kept |-> <<>>]

\* mutant: the mutex lets a second context in
CanLock_Always(holder, c) == TRUE

\* Mutex::lock returns when no context holds the mutex
CanLock(holder, c) == holder = NoContext

(* ---------------------------------------------------------------------- *)
(* Initial state: PopupManager::new, no surface data attached yet          *)
(* ---------------------------------------------------------------------- *)
Init ==
    /\ alive = [s \in Surfaces |-> TRUE]
    /\ parent = [p \in Popups |-> NoSurface]
    /\ committed = [p \in Popups |-> FALSE]
    /\ tracked = {}
    /\ location = [p \in Popups |-> Origin]
    /\ returned = [root |-> NoSurface, items |-> <<>>]
    /\ lock = [r \in Roots |-> NoContext]
    /\ pc = [c \in Contexts |-> Idle]
    /\ unmapped_popups = <<>>
    /\ popup_trees = <<>>
    /\ popup_grabs = <<>>
    /\ attached = [r \in Roots |-> FALSE]
    /\ nodes = [r \in Roots |-> <<>>]
    /\ has_chain = [s \in Seats |-> FALSE]
    /\ chain = [s \in Seats |-> <<>>]
    /\ dismissed = [s \in Seats |-> {}]
    /\ serials = 0
    /\ events = <<>>
    /\ last = Call("new", NoSurface, NoSurface, "Ok", NoSerial)

(* ---------------------------------------------------------------------- *)
(* The protocol layer and the clients                                      *)
(* ---------------------------------------------------------------------- *)
\* a surface a popup may name as its parent: alive, and its own parent chain
\* ends at a toplevel
Resolvable(s) ==
    /\ s \in Surfaces
    /\ alive[s]
    /\ \/ s \in Roots
       \/ s \in tracked /\ FindPopupRootSurface(s, parent) # NoSurface

EnvCall == Call("env", NoSurface, NoSurface, "Ok", NoSerial)

\* a client destroys a surface
Destroy(s) ==
    /\ alive[s]
    /\ Cardinality({x \in Surfaces : ~alive[x]}) < MaxDestroyed
    /\ s \in Popups => s \in tracked
    /\ alive' = [alive EXCEPT ![s] = FALSE]
    /\ events' = <<>>
    /\ last' = EnvCall
    /\ UNCHANGED <<parent, committed, tracked, otherVars, managerVars, treeVars, seatVars,
                   serials>>

\* a popup created without a parent gets one
SetParent(p, s) ==
    /\ p \in tracked /\ alive[p] /\ parent[p] = NoSurface
    /\ Resolvable(s)
    /\ parent' = [parent EXCEPT ![p] = s]
    /\ events' = <<>>
    /\ last' = EnvCall
    /\ UNCHANGED <<alive, committed, tracked, otherVars, managerVars, treeVars, seatVars,
                   serials>>

\* the placement of a popup changes (its geometry is set or it is
\* repositioned)
SetLocation(p, d) ==
    /\ p \in tracked /\ alive[p]
    /\ d \in Offsets /\ d # location[p]
    /\ location' = [location EXCEPT ![p] = d]
    /\ events' = <<>>
    /\ last' = Call("set_location", NoSurface, p, "Ok", NoSerial)
    /\ UNCHANGED <<alive, parent, committed, tracked, returned, lockVars, managerVars,
                   treeVars, seatVars, serials>>

\* the topmost grab of a seat ends while its popup is alive
Ungrab(seat) ==
    /\ chain[seat] # <<>>
    /\ LET c == chain[seat]
       IN  /\ chain' = [chain EXCEPT ![seat] = SubSeq(c, 1, Len(c) - 1)]
           /\ dismissed' = [dismissed EXCEPT ![seat] = @ \cup {c[Len(c)].popup}]
    /\ events' = <<>>
    /\ last' = EnvCall
    /\ UNCHANGED <<envVars, otherVars, managerVars, treeVars, has_chain, serials>>

(* ---------------------------------------------------------------------- *)
(* PopupManager: operations                                                *)
(* ---------------------------------------------------------------------- *)
\* the protocol layer assigns the popup role (with parent par0 or none) and
\* calls track_popup
TrackPopup(p, par0) ==
    /\ p \notin tracked
    /\ \A q \in Popups : q < p => q \in tracked   \* popups are numbered as created
    /\ par0 = NoSurface \/ Resolvable(par0)
    /\ tracked' = tracked \cup {p}
    /\ parent' = [parent EXCEPT ![p] = par0]
    /\ IF parent'[p] # NoSurface
       THEN LET a == AddPopup(p, parent', popup_trees, attached, nodes)
            IN  /\ popup_trees' = a.popup_trees
                /\ attached' = a.attached
                /\ nodes' = a.nodes
                /\ last' = Call("track_popup", NoSurface, p, a.status, NoSerial)
                /\ UNCHANGED unmapped_popups
       ELSE /\ unmapped_popups' = Append(unmapped_popups, p)
            /\ last' = Call("track_popup", NoSurface, p, "Ok", NoSerial)
            /\ UNCHANGED <<popup_trees, treeVars>>
    /\ events' = <<>>
    /\ UNCHANGED <<alive, committed, otherVars, popup_grabs, seatVars, serials>>

\* a commit of surface s is processed: the protocol layer marks a popup
\* committed (a popup without a parent is a protocol error and never gets
\* here) and PopupManager::commit runs
Commit(s) ==
    /\ alive[s]
    /\ s \in Popups => s \in tracked /\ parent[s] # NoSurface
    /\ committed' = IF s \in Popups THEN [committed EXCEPT ![s] = TRUE] ELSE committed
    /\ LET i == Position(unmapped_popups, s)
       IN  IF s \in Popups /\ i # 0
           THEN LET um == SwapRemove(unmapped_popups, i)
                    a == AddPopup(s, parent, popup_trees, attached, nodes)
                IN  /\ unmapped_popups' = um
                    /\ popup_trees' = a.popup_trees
                    /\ attached' = a.attached
                    /\ nodes' = a.nodes
           ELSE UNCHANGED <<unmapped_popups, popup_trees, treeVars>>
    /\ events' = <<>>
    /\ last' = Call("commit", s,
                    IF Position(unmapped_popups, s) # 0 THEN s ELSE NoSurface,
                    "Ok", NoSerial)
    /\ UNCHANGED <<alive, parent, tracked, otherVars, popup_grabs, seatVars, serials>>

\* PopupManager::dismiss_popup(r, p)
DismissPopup(r, p) ==
    /\ p \in tracked
    /\ LET d == ManagerDismiss(r, p, alive, attached, nodes)
       IN  /\ nodes' = d.nodes
           /\ events' = d.ev
           /\ last' = Call("dismiss_popup", r, p, d.status, NoSerial)
    /\ UNCHANGED <<envVars, otherVars, managerVars, attached, seatVars, serials>>

\* PopupManager::popups_for_surface(r): the caller keeps the sequence
PopupsForSurfaceCall(r) ==
    /\ returned' = [root |-> r,
                    items |-> PopupsWithOffsets(r, attached, nodes, location)]
    /\ events' = <<>>
    /\ last' = Call("popups_for_surface", r, NoSurface, "Ok", NoSerial)
    /\ UNCHANGED <<envVars, location, lockVars, managerVars, treeVars, seatVars, serials>>

\* PopupManager::cleanup: the cleanup hook of every registered chain
RECURSIVE CleanupGrabs(_, _, _, _)
CleanupGrabs(pg, c, d, al) ==
    IF pg = <<>> THEN [chain |-> c, dismissed |-> d]
    ELSE LET r == ChainCleanup(c[Head(pg)], d[Head(pg)], al)
         IN  CleanupGrabs(Tail(pg),
                          [c EXCEPT ![Head(pg)] = r.chain],
                          [d EXCEPT ![Head(pg)] = r.dismissed], al)

\* PopupManager::cleanup: popup_grabs.retain(|grabs| grabs.alive())
RetainGrabs(pg, c) ==
    LET keep(seat) == ChainAlive(c[seat]) IN Retain(pg, keep)

\* mutant: no tree is dropped from the list
RetainTrees_KeepsAll(pt, nd) == pt

\* PopupManager::cleanup: popup_trees.retain(|tree| tree.alive())
RetainTrees(pt, nd) ==
    LET keep(r) == TreeAlive(nd[r]) IN Retain(pt, keep)

\* mutant: the unmapped list is emptied
RetainUnmapped_DropsAll(um, al) == <<>>

\* PopupManager::cleanup: unmapped_popups.retain(|surf| surf.alive())
RetainUnmapped(um, al) ==
    LET keep(p) == al[p] IN Retain(um, keep)

\* PopupManager::cleanup
Cleanup ==
    /\ LET g == CleanupGrabs(popup_grabs, chain, dismissed, alive)
           nd == CleanupTrees(popup_trees, nodes, alive)
       IN  /\ chain' = g.chain
           /\ dismissed' = g.dismissed
           /\ popup_grabs' = RetainGrabs(popup_grabs, g.chain)
           /\ nodes' = nd
           /\ popup_trees' = RetainTrees(popup_trees, nd)
           /\ unmapped_popups' = RetainUnmapped(unmapped_popups, alive)
    /\ events' = <<>>
    /\ last' = Call("cleanup", NoSurface, NoSurface, "Ok", NoSerial)
    /\ UNCHANGED <<envVars, otherVars, attached, has_chain, serials>>

\* PopupManager::grab_popup(target, seat, serial), with the next serial.
\* With veto the chain turns the grab down for a reason of its own, which
\* grab_popup hands on through the `_ => {}` arm.
GrabCall(target, seat, veto) ==
    /\ serials < MaxSerial
    /\ serials' = serials + 1
    /\ LET serial == serials + 1
           pre == GrabValidate(target, parent, alive, committed)
           root == FindPopupRootSurface(target, parent)
       IN  IF pre # "Ok"
           THEN /\ events' = IF pre = "InvalidGrab"
                             THEN <<PostError(target, "InvalidGrab")>> ELSE <<>>
                /\ last' = Call("grab_popup", target, target, pre, NoSerial)
                /\ UNCHANGED <<popup_grabs, nodes, seatVars>>
           ELSE LET res == ChainGrabOrVeto(chain[seat], dismissed[seat], target, serial,
                                           parent, veto)
                    eff == GrabErrorEffects(res.status, root, target, alive, attached, nodes)
                IN  /\ has_chain' = [has_chain EXCEPT ![seat] = TRUE]
                    /\ popup_grabs' = GrabRegister(popup_grabs, seat, chain[seat])
                    /\ chain' = [chain EXCEPT ![seat] = res.chain]
                    /\ UNCHANGED dismissed
                    /\ IF res.status = "Ok"
                       THEN /\ last' = Call("grab_popup", target, target, "Ok",
                                            GrabPreviousSerial(res, serial))
                            /\ events' = <<>>
                            /\ UNCHANGED nodes
                       ELSE /\ last' = Call("grab_popup", target, target, res.status, NoSerial)
                            /\ events' = eff.ev
                            /\ nodes' = eff.nodes
    /\ UNCHANGED <<envVars, otherVars, unmapped_popups, popup_trees, attached>>

\* grab_popup with a chain that rejects for the two reasons of its contract
GrabPopup(target, seat) == GrabCall(target, seat, FALSE)

(* ---------------------------------------------------------------------- *)
(* Two contexts on one tree: every call is a series of tree operations,    *)
(* each of which locks the tree, works on what it finds and unlocks        *)
(* ---------------------------------------------------------------------- *)
\* one operation of the same kind on every entry of a tree list, in order
OpsFor(kind, pt) == [i \in 1..Len(pt) |-> TreeOp(kind, pt[i])]

\* track_popup of a popup with a parent: add_popup up to tree.alive()
BeginTrackPopup(p, par0) ==
    /\ pc[Manager].stage = "idle"
    /\ p \in 1..MaxLockPopups /\ p \notin tracked
    /\ \A q \in Popups : q < p => q \in tracked
    /\ Resolvable(par0)
    /\ tracked' = tracked \cup {p}
    /\ parent' = [parent EXCEPT ![p] = par0]
    /\ LET root == FindPopupRootSurface(p, parent')
       IN  /\ attached' = [attached EXCEPT ![root] = TRUE]
           /\ popup_trees' = IF ~attached[root] THEN Append(popup_trees, root)
                             ELSE popup_trees
           /\ pc' = [pc EXCEPT ![Manager] =
                        Calling("track_popup", p,
                                <<TreeOp("alive", root), TreeOp("insert", root)>>)]
    /\ events' = <<>>
    /\ last' = Call("begin", NoSurface, p, "track_popup", NoSerial)
    /\ UNCHANGED <<alive, committed, location, returned, lock, unmapped_popups,
                   popup_grabs, nodes, seatVars, serials>>

\* cleanup(): tree.cleanup() on every registered tree, then tree.alive() on
\* every one of them in the retain
BeginCleanup ==
    /\ pc[Manager].stage = "idle"
    /\ LET todo == OpsFor("cleanup", popup_trees) \o OpsFor("alive", popup_trees)
       IN  IF todo = <<>>
           THEN /\ unmapped_popups' = RetainUnmapped(unmapped_popups, alive)
                /\ UNCHANGED pc
           ELSE /\ pc' = [pc EXCEPT ![Manager] = Calling("cleanup", NoSurface, todo)]
                /\ UNCHANGED unmapped_popups
    /\ events' = <<>>
    /\ last' = Call("begin", NoSurface, NoSurface, "cleanup", NoSerial)
    /\ UNCHANGED <<envVars, location, returned, lock, popup_trees, popup_grabs,
                   treeVars, seatVars, serials>>

\* find_popup(s): the unmapped list, then iter_popups on the registered trees
BeginFindPopup(s) ==
    /\ pc[Manager].stage = "idle"
    /\ IF Position(unmapped_popups, s) # 0 \/ popup_trees = <<>>
       THEN UNCHANGED pc
       ELSE pc' = [pc EXCEPT ![Manager] =
                      Calling("find_popup", s, OpsFor("iter", popup_trees))]
    /\ events' = <<>>
    /\ last' = Call("begin", s, NoSurface, "find_popup", NoSerial)
    /\ UNCHANGED <<envVars, location, returned, lock, managerVars, treeVars,
                   seatVars, serials>>

\* dismiss_popup(r, p), reached through the root surface
BeginDismissPopup(r, p) ==
    /\ pc[Holder].stage = "idle"
    /\ p \in tracked
    /\ IF alive[r] /\ attached[r]
       THEN pc' = [pc EXCEPT ![Holder] =
                      Calling("dismiss_popup", p, <<TreeOp("dismiss", r)>>)]
       ELSE UNCHANGED pc
    /\ events' = <<>>
    /\ last' = Call("begin", r, p, "dismiss_popup", NoSerial)
    /\ UNCHANGED <<envVars, location, returned, lock, managerVars, treeVars,
                   seatVars, serials>>

\* popups_for_surface(r), reached through the root surface
BeginPopupsForSurface(r) ==
    /\ pc[Holder].stage = "idle"
    /\ IF attached[r]
       THEN /\ pc' = [pc EXCEPT ![Holder] =
                         Calling("popups_for_surface", NoSurface, <<TreeOp("iter", r)>>)]
            /\ UNCHANGED returned
       ELSE /\ returned' = [root |-> r, items |-> <<>>]
            /\ UNCHANGED pc
    /\ events' = <<>>
    /\ last' = Call("begin", r, NoSurface, "popups_for_surface", NoSerial)
    /\ UNCHANGED <<envVars, location, lock, managerVars, treeVars, seatVars, serials>>

\* self.0.lock() at the head of a PopupTree method
LockTree(c) ==
    /\ pc[c].stage = "lock"
    /\ LET op == Head(pc[c].todo)
       IN  /\ CanLock(lock[op.root], c)
           /\ lock' = [lock EXCEPT ![op.root] = c]
           /\ pc' = [pc EXCEPT ![c].stage = "locked", ![c].seen = nodes[op.root]]
           /\ last' = Call("lock", op.root, pc[c].popup, op.kind, NoSerial)
    /\ events' = <<>>
    /\ UNCHANGED <<envVars, location, returned, managerVars, treeVars, seatVars,
                   serials>>

\* the body of a PopupTree method on the tree it locked, and the release of
\* the lock at its end; the caller goes on with what the method returned
UnlockTree(c) ==
    /\ pc[c].stage = "locked"
    /\ LET me == pc[c]
           op == Head(me.todo)
           seen == me.seen
           dis == TreeDismiss(seen, me.popup)
           found == /\ me.handler = "find_popup"
                    /\ Position(IterPopups(seen), me.popup) # 0
           rest == IF found THEN <<>> ELSE Tail(me.todo)
           kept == IF me.handler = "cleanup" /\ op.kind = "alive" /\ TreeAlive(seen)
                   THEN Append(me.kept, op.root) ELSE me.kept
           done == rest = <<>>
       IN  /\ nodes' = [nodes EXCEPT ![op.root] =
                          CASE op.kind = "insert" -> TreeInsert(seen, me.popup, parent)
                            [] op.kind = "cleanup" -> TreeCleanup(seen, alive)
                            [] op.kind = "dismiss" -> dis.list
                            [] OTHER -> @]
           /\ popup_trees' =
                IF me.handler = "track_popup" /\ op.kind = "alive" /\ ~TreeAlive(seen)
                THEN Append(popup_trees, op.root)
                ELSE IF me.handler = "cleanup" /\ done THEN kept
                ELSE popup_trees
           /\ unmapped_popups' =
                IF me.handler = "cleanup" /\ done
                THEN RetainUnmapped(unmapped_popups, alive) ELSE unmapped_popups
           /\ returned' =
                IF me.handler = "popups_for_surface"
                THEN [root |-> op.root, items |-> IterPopupsWithOffsets(seen, location)]
                ELSE returned
           /\ events' = IF op.kind = "dismiss" THEN dis.ev ELSE <<>>
           /\ lock' = [lock EXCEPT ![op.root] = NoContext]
           /\ pc' = [pc EXCEPT ![c] =
                        IF done THEN Idle
                        ELSE [me EXCEPT !.stage = "lock", !.todo = rest,
                                        !.seen = <<>>, !.kept = kept]]
           /\ last' = Call("unlock", op.root, me.popup, op.kind, NoSerial)
    /\ UNCHANGED <<envVars, location, popup_grabs, attached, seatVars, serials>>

(* ---------------------------------------------------------------------- *)
(* Specifications                                                          *)
(* ---------------------------------------------------------------------- *)
\* the manager without explicit grabs
TreeNext ==
    \/ \E p \in Popups, par0 \in Surfaces \cup {NoSurface} : TrackPopup(p, par0)
    \/ \E p \in Popups, s \in Surfaces : SetParent(p, s)
    \/ \E s \in Surfaces : Commit(s)
    \/ \E s \in Surfaces : Destroy(s)
    \/ \E r \in Roots, p \in Popups : DismissPopup(r, p)
    \/ Cleanup

\* track_popup and commit only, with the clients' moves
TrackCommitNext ==
    \/ \E p \in Popups, par0 \in Surfaces \cup {NoSurface} : TrackPopup(p, par0)
    \/ \E p \in Popups, s \in Surfaces : SetParent(p, s)
    \/ \E s \in Surfaces : Commit(s)
    \/ \E s \in Surfaces : Destroy(s)

\* every operation, in runs that create at most MaxGrabPopups popups
Next ==
    \/ \E p \in 1..MaxGrabPopups, par0 \in Surfaces \cup {NoSurface} : TrackPopup(p, par0)
    \/ \E p \in Popups, s \in Surfaces : SetParent(p, s)
    \/ \E s \in Surfaces : Commit(s)
    \/ \E s \in Surfaces : Destroy(s)
    \/ \E r \in Roots, p \in Popups : DismissPopup(r, p)
    \/ Cleanup
    \/ \E t \in tracked \cup Roots, seat \in Seats : GrabPopup(t, seat)
    \/ \E seat \in Seats : Ungrab(seat)

\* track_popup and commit of popups created with a parent or without one,
\* which are placed and moved
OffsetsNext ==
    \/ \E p \in Popups, par0 \in Surfaces \cup {NoSurface} : TrackPopup(p, par0)
    \/ \E s \in Surfaces : Commit(s)
    \/ \E p \in Popups, d \in Offsets : SetLocation(p, d)

\* popups_for_surface between changes of the trees
SnapshotNext ==
    \/ \E p \in Popups, par0 \in Surfaces \cup {NoSurface} : TrackPopup(p, par0)
    \/ \E s \in Surfaces : Destroy(s)
    \/ \E r \in Roots, p \in Popups : DismissPopup(r, p)
    \/ Cleanup
    \/ \E r \in Roots : PopupsForSurfaceCall(r)

\* grabs on a chain that may reject for reasons of its own
GrabRejectNext ==
    \/ \E p \in 1..MaxGrabPopups, par0 \in Surfaces \cup {NoSurface} : TrackPopup(p, par0)
    \/ \E s \in Surfaces : Commit(s)
    \/ \E s \in Surfaces : Destroy(s)
    \/ Cleanup
    \/ \E t \in tracked \cup Roots, seat \in Seats, veto \in BOOLEAN :
          GrabCall(t, seat, veto)
    \/ \E seat \in Seats : Ungrab(seat)

\* the manager's owner and a holder of the root surface, interleaved at
\* the tree operations
LockNext ==
    \/ \E p \in Popups, par0 \in Surfaces : BeginTrackPopup(p, par0)
    \/ BeginCleanup
    \/ \E s \in Popups : BeginFindPopup(s)
    \/ \E r \in Roots, p \in Popups : BeginDismissPopup(r, p)
    \/ \E r \in Roots : BeginPopupsForSurface(r)
    \/ \E c \in Contexts : LockTree(c)
    \/ \E c \in Contexts : UnlockTree(c)
    \/ \E s \in Surfaces : Destroy(s)

Spec == Init /\ [][Next]_vars

SpecTree == Init /\ [][TreeNext]_vars

SpecTrackCommit == Init /\ [][TrackCommitNext]_vars

SpecOffsets == Init /\ [][OffsetsNext]_vars

SpecSnapshot == Init /\ [][SnapshotNext]_vars

SpecGrabReject == Init /\ [][GrabRejectNext]_vars

SpecLock == Init /\ [][LockNext]_vars

(* ---------------------------------------------------------------------- *)
(* Observations used by the properties                                     *)
(* ---------------------------------------------------------------------- *)
\* the nodes with surface p, in pre-order
RECURSIVE FindNodes(_, _)
FindNodes(ch, p) ==
    IF ch = <<>> THEN <<>>
    ELSE (IF Head(ch).surface = p THEN <<Head(ch)>> ELSE <<>>)
         \o FindNodes(Head(ch).children, p) \o FindNodes(Tail(ch), p)

\* the surfaces of p's node and of everything below it
SubtreeSurfaces(forest, p) ==
    LET f == FindNodes(forest, p)
    IN  IF f = <<>> THEN {} ELSE Range(NodePopups(f[1]))

\* the (parent surface, child surface) pairs of a forest; root nodes hang
\* under `up`
RECURSIVE Edges(_, _)
Edges(ch, up) ==
    IF ch = <<>> THEN {}
    ELSE {<<up, Head(ch).surface>>}
         \cup Edges(Head(ch).children, Head(ch).surface) \cup Edges(Tail(ch), up)

Without(s, gone) == LET keep(x) == x \notin gone IN SelectSeq(s, keep)

IndexOf(s, x) == CHOOSE i \in 1..Len(s) : s[i] = x

DoneSurfaces(ev) ==
    LET isDone(e) == e.kind = "send_done"
        d == SelectSeq(ev, isDone)
    IN  [i \in 1..Len(d) |-> d[i].surface]

NoDuplicates(s) == \A i, j \in 1..Len(s) : s[i] = s[j] => i = j

\* every popup sits in at most one place
TypeOK ==
    /\ \A r \in Roots : NoDuplicates(IterPopups(nodes[r]))
    /\ \A r \in Roots : ~attached[r] => nodes[r] = <<>>
    /\ NoDuplicates(unmapped_popups)
    /\ \A p \in Popups : parent[p] # NoSurface => FindPopupRootSurface(p, parent) \in Roots

(* ---------------------------------------------------------------------- *)
(* C1                                                                      *)
(* ---------------------------------------------------------------------- *)
\* C1: for a live root r whose tree contains popup p, after
\* dismiss_popup(r, p) neither p nor any node of p's subtree is listed by
\* popups_for_surface(r), and every other node is still listed, under the
\* same parent and in the same relative order.
C1_DismissRemovesSubtree ==
    [][\A r \in Roots, p \in Popups :
        LET before == PopupsForSurface(r, attached, nodes)
            after == PopupsForSurface(r, attached', nodes')
            gone == SubtreeSurfaces(nodes[r], p)
        IN  (/\ last'.op = "dismiss_popup" /\ last'.surface = r /\ last'.popup = p
             /\ alive[r] /\ p \in Range(before))
            => /\ p \in gone
               /\ Range(after) \cap gone = {}
               /\ after = Without(before, gone)
               /\ Edges(nodes'[r], r) = {e \in Edges(nodes[r], r) : e[2] \notin gone}
    ]_vars

\* C1 witness: a dismissal took a popup and a descendant out of a tree in
\* which another popup remains
C1_Witness ==
    /\ last.op = "dismiss_popup" /\ last.status = "Ok"
    /\ Len(DoneSurfaces(events)) >= 2
    /\ nodes[last.surface] # <<>>
    /\ last.popup \notin Range(PopupsForSurface(last.surface, attached, nodes))

(* ---------------------------------------------------------------------- *)
(* C2                                                                      *)
(* ---------------------------------------------------------------------- *)
\* C2: during dismiss_popup(r, p) on a live root whose tree contains p, a
\* done notification is sent exactly once to p and to every node of p's
\* subtree and to nobody else; every node is notified after all of its
\* descendants, a later child before an earlier one, p last; and the
\* subtree is detached only after the last notification.
C2_DoneOrder ==
    [][\A r \in Roots, p \in Popups :
        LET before == PopupsForSurface(r, attached, nodes)
            gone == SubtreeSurfaces(nodes[r], p)
            done == DoneSurfaces(events')
            edges == Edges(nodes[r], r)
        IN  (/\ last'.op = "dismiss_popup" /\ last'.surface = r /\ last'.popup = p
             /\ alive[r] /\ p \in Range(before))
            => /\ NoDuplicates(done)
               /\ Range(done) = gone
               /\ done[Len(done)] = p
               /\ \A e \in edges : e[1] \in gone /\ e[2] \in gone
                      => IndexOf(done, e[2]) < IndexOf(done, e[1])
               /\ \A e, f \in edges :
                      (/\ e[1] = f[1] /\ e[1] \in gone
                       /\ IndexOf(before, e[2]) < IndexOf(before, f[2]))
                      => IndexOf(done, f[2]) < IndexOf(done, e[2])
               /\ events' = [i \in 1..Len(done) |-> Done(done[i])] \o <<Detach(p)>>
    ]_vars

\* C2 witness: a dismissal notified a popup with two children
C2_Witness ==
    /\ last.op = "dismiss_popup" /\ last.status = "Ok"
    /\ Len(DoneSurfaces(events)) = 3
    /\ \E a, b \in Popups :
          /\ a # b /\ parent[a] = last.popup /\ parent[b] = last.popup
          /\ {a, b} \subseteq Range(DoneSurfaces(events))

(* ---------------------------------------------------------------------- *)
(* C3                                                                      *)
(* ---------------------------------------------------------------------- *)
Found(s) == FindPopup(s, unmapped_popups, popup_trees, nodes)

\* C3 as stated: after track_popup and commit calls, find_popup returns
\* every tracked popup that is alive and returns none for every popup that
\* is no longer alive.
C3_Original ==
    \A s \in tracked :
        /\ alive[s] => Found(s) = s
        /\ ~alive[s] => Found(s) = NoSurface

\* C3 as amended: after track_popup and commit calls, find_popup returns
\* every tracked popup, whether it is alive or already dead, and none for a
\* popup that was never tracked.
C3_FindsEveryTracked ==
    \A s \in Popups : Found(s) = IF s \in tracked THEN s ELSE NoSurface

\* C3 witness: after a commit, a dead popup and a live popup held by a tree
\* are both found
C3_Witness ==
    /\ last.op = "commit"
    /\ \E s, t \in tracked :
          /\ ~alive[s] /\ Found(s) = s
          /\ alive[t] /\ Position(unmapped_popups, t) = 0 /\ Found(t) = t

(* ---------------------------------------------------------------------- *)
(* C4                                                                      *)
(* ---------------------------------------------------------------------- *)
\* the grab target passes the first two checks: a live popup with a root
GrabPasses(t) == t \in Popups /\ alive[t] /\ parent[t] # NoSurface

\* C4: grab_popup on a (live, rooted) popup that is marked committed fails
\* with InvalidGrab, posts the "already mapped" error on the popup's
\* surface, and leaves every grab chain as it was: no chain is changed,
\* created or registered with the manager.
C4_CommittedGrabRejected ==
    [][\A t \in Popups :
        (/\ last'.op = "grab_popup" /\ last'.surface = t
         /\ GrabPasses(t) /\ committed[t])
        => /\ last'.status = "InvalidGrab"
           /\ events' = <<PostError(t, "InvalidGrab")>>
           /\ chain' = chain /\ dismissed' = dismissed
           /\ has_chain' = has_chain /\ popup_grabs' = popup_grabs
    ]_vars

\* C4 witness: a grab was refused with InvalidGrab while the seat holds a
\* chain
C4_Witness ==
    /\ last.op = "grab_popup" /\ last.status = "InvalidGrab"
    /\ committed[last.popup]
    /\ chain[Seat] # <<>>

(* ---------------------------------------------------------------------- *)
(* C5                                                                      *)
(* ---------------------------------------------------------------------- *)
\* C5: grab_popup on a popup whose parent is not the topmost popup of the
\* seat's chain (and was not dismissed from it) fails with
\* NotTheTopmostPopup, posts that error on the popup's surface, and leaves
\* the chain and every popup tree as they were.
C5_NotTopmostRejected ==
    [][\A t \in Popups :
        LET c == chain[Seat]
        IN  (/\ last'.op = "grab_popup" /\ last'.surface = t
             /\ \/ last'.status = "NotTheTopmostPopup"
                \/ /\ GrabPasses(t) /\ ~committed[t]
                   /\ c # <<>> /\ c[Len(c)].popup # parent[t]
                   /\ parent[t] \notin dismissed[Seat])
            => /\ last'.status = "NotTheTopmostPopup"
               /\ events' = <<PostError(t, "NotTheTopmostPopup")>>
               /\ chain' = chain /\ dismissed' = dismissed
               /\ nodes' = nodes /\ attached' = attached
               /\ popup_trees' = popup_trees /\ unmapped_popups' = unmapped_popups
    ]_vars

\* C5 witness: a grab on a popup that sits in a tree was refused with
\* NotTheTopmostPopup
C5_Witness ==
    /\ last.op = "grab_popup" /\ last.status = "NotTheTopmostPopup"
    /\ chain[Seat] # <<>>
    /\ \E r \in Roots : alive[r] /\ last.popup \in Range(PopupsForSurface(r, attached, nodes))

(* ---------------------------------------------------------------------- *)
(* C6                                                                      *)
(* ---------------------------------------------------------------------- *)
\* C6: a successful grab_popup appends the popup to the seat's chain and
\* returns the serial of the popup that was topmost before (none for an
\* empty chain); a grab on an empty chain succeeds with no previous
\* serial, a grab of a child of the topmost popup succeeds with the
\* topmost popup's serial, and a grab of a popup lying below the topmost
\* one fails with NotTheTopmostPopup.
C6_PreviousSerial ==
    [][\A t \in Popups :
        LET c == chain[Seat]
            top == c[Len(c)]
            ok == GrabPasses(t) /\ ~committed[t]
        IN  (last'.op = "grab_popup" /\ last'.surface = t)
            => /\ last'.status = "Ok"
                  => /\ last'.previous_serial = (IF c = <<>> THEN NoSerial ELSE top.serial)
                     /\ chain'[Seat] = Append(c, [popup |-> t, serial |-> serials'])
               /\ (ok /\ c = <<>> /\ parent[t] \notin dismissed[Seat])
                  => last'.status = "Ok" /\ last'.previous_serial = NoSerial
               /\ (ok /\ c # <<>> /\ parent[t] = top.popup)
                  => last'.status = "Ok" /\ last'.previous_serial = top.serial
               /\ (/\ ok /\ Len(c) >= 2 /\ c[Len(c) - 1].popup = t
                   /\ parent[top.popup] = t /\ parent[t] \notin dismissed[Seat])
                  => last'.status = "NotTheTopmostPopup"
    ]_vars

\* C6 witness: the scenario's third call. Popup 1 was grabbed with serial 1
\* on the empty chain, its child 2 with serial 2, and grab(1, serial 3) was
\* refused
C6_Witness ==
    /\ last = Call("grab_popup", 1, 1, "NotTheTopmostPopup", NoSerial)
    /\ serials = 3
    /\ parent[2] = 1
    /\ chain[Seat] = <<[popup |-> 1, serial |-> 1], [popup |-> 2, serial |-> 2]>>
    /\ dismissed[Seat] = {}

(* ---------------------------------------------------------------------- *)
(* C7                                                                      *)
(* ---------------------------------------------------------------------- *)
\* the first popup of t's lineage: the ancestor whose parent is a toplevel
RECURSIVE RootPopup(_)
RootPopup(t) == IF parent[t] \in Popups THEN RootPopup(parent[t]) ELSE t

HasLiveGrab(c) == \E i \in 1..Len(c) : alive[c[i].popup]

\* C8: when cleanup() returns, no tree with zero nodes is registered, no
\* dead popup is in the unmapped list and no grab chain without a live
\* grab is registered.
C8_CleanupReclaims ==
    last.op = "cleanup"
    => /\ \A i \in 1..Len(popup_trees) : nodes[popup_trees[i]] # <<>>
       /\ \A i \in 1..Len(unmapped_popups) : alive[unmapped_popups[i]]
       /\ \A i \in 1..Len(popup_grabs) : HasLiveGrab(chain[popup_grabs[i]])

\* C8 witness: cleanup() has dropped an emptied tree, a dead unmapped popup
\* and a chain whose only grab died
C8_Witness ==
    /\ last.op = "cleanup"
    /\ \E r \in Roots : attached[r] /\ nodes[r] = <<>>
    /\ popup_trees = <<>>
    /\ \E p \in tracked : ~alive[p] /\ parent[p] = NoSurface
    /\ unmapped_popups = <<>>
    /\ has_chain[Seat] /\ popup_grabs = <<>>

(* ---------------------------------------------------------------------- *)
(* C9                                                                      *)
(* ---------------------------------------------------------------------- *)
\* the surfaces of a forest that are alive and have only live ancestors
RECURSIVE LiveReach(_)
LiveReach(ch) ==
    IF ch = <<>> THEN {}
    ELSE (IF alive[Head(ch).surface]
          THEN {Head(ch).surface} \cup LiveReach(Head(ch).children) ELSE {})
         \cup LiveReach(Tail(ch))

Registered(r) == r \in Range(popup_trees)

\* C9 as stated: cleanup() keeps every live popup where it was (in the
\* unmapped list, or in its tree under the same parent) and keeps every
\* tree that holds a live popup and every live grab chain registered.
C9_Original ==
    [][last'.op = "cleanup"
       => /\ \A p \in Popups :
               alive[p] /\ p \in Range(unmapped_popups) => p \in Range(unmapped_popups')
          /\ \A r \in Roots : \A e \in Edges(nodes[r], r) :
               alive[e[2]] => e \in Edges(nodes'[r], r)
          /\ \A r \in Roots :
               (Registered(r) /\ \E x \in Range(IterPopups(nodes[r])) : alive[x])
               => r \in Range(popup_trees')
          /\ \A seat \in Seats :
               seat \in Range(popup_grabs) /\ HasLiveGrab(chain[seat])
               => seat \in Range(popup_grabs')
    ]_vars

\* C9 as amended: cleanup() keeps every live popup of the unmapped list in
\* its place, and in every registered tree keeps, under the same parent and
\* in the same order, exactly the live popups all of whose ancestors in the
\* tree are alive (a live popup below a dead node is dropped with it);
\* every tree that keeps a node and every chain with a live grab stay
\* registered, and trees that are not registered are not touched.
C9_CleanupKeepsLive ==
    [][last'.op = "cleanup"
       => /\ LET keep(p) == alive[p]
             IN  unmapped_popups' = SelectSeq(unmapped_popups, keep)
          /\ \A r \in Roots :
               LET kept == LiveReach(nodes[r])
                   keep(x) == x \in kept
               IN  IF Registered(r)
                   THEN /\ IterPopups(nodes'[r]) = SelectSeq(IterPopups(nodes[r]), keep)
                        /\ Edges(nodes'[r], r) = {e \in Edges(nodes[r], r) : e[2] \in kept}
                   ELSE nodes'[r] = nodes[r]
          /\ LET keep(r) == LiveReach(nodes[r]) # {}
             IN  popup_trees' = SelectSeq(popup_trees, keep)
          /\ LET keep(seat) == HasLiveGrab(chain[seat])
             IN  popup_grabs' = SelectSeq(popup_grabs, keep)
          /\ \A seat \in Seats :
               LET keep(g) == alive[g.popup]
               IN  chain'[seat] = IF seat \in Range(popup_grabs)
                                  THEN SelectSeq(chain[seat], keep) ELSE chain[seat]
          /\ attached' = attached
    ]_vars

\* C9 witness: cleanup() ran with a dead popup to reclaim while a live
\* popup sits in a tree and a live grab keeps the seat's chain registered
C9_Witness ==
    /\ last.op = "cleanup"
    /\ \E p \in tracked : ~alive[p] /\ Found(p) = NoSurface
    /\ \E p \in tracked, r \in Roots :
          alive[p] /\ p \in Range(PopupsForSurface(r, attached, nodes))
    /\ popup_grabs # <<>> /\ HasLiveGrab(chain[Seat])

(* ---------------------------------------------------------------------- *)
(* C10                                                                     *)
(* ---------------------------------------------------------------------- *)
\* C10 as stated: dismiss_popup always succeeds, also when the root
\* surface is dead.
C10_Original ==
    last.op = "dismiss_popup" => last.status = "Ok"

\* C10 as amended: dismiss_popup(r, p) fails with DeadResource when the
\* root surface is dead; it succeeds when the live root has no tree or the
\* tree does not hold p (also on a second dismissal); in all three cases no
\* notification is sent and no tree changes.
C10_DismissNoOp ==
    [][\A r \in Roots, p \in Popups :
        (/\ last'.op = "dismiss_popup" /\ last'.surface = r /\ last'.popup = p
         /\ \/ ~alive[r]
            \/ ~attached[r]
            \/ p \notin Range(IterPopups(nodes[r])))
        => /\ last'.status = IF alive[r] THEN "Ok" ELSE "DeadResource"
           /\ events' = <<>>
           /\ nodes' = nodes /\ attached' = attached
           /\ popup_trees' = popup_trees /\ unmapped_popups' = unmapped_popups
    ]_vars

\* C10 witness: a dismissal on a dead root surface was refused although the
\* popup sits in the root's tree
C10_Witness ==
    /\ last.op = "dismiss_popup" /\ last.status = "DeadResource"
    /\ ~alive[last.surface]
    /\ last.popup \in Range(PopupsForSurface(last.surface, attached, nodes))

(* ---------------------------------------------------------------------- *)
(* C11                                                                     *)
(* ---------------------------------------------------------------------- *)
\* p is a node of some tree
InTree(p) == \E r \in Roots : p \in Range(IterPopups(nodes[r]))

\* the declared parent of p is a toplevel or a node of some tree
ParentPresent(p) ==
    parent[p] # NoSurface /\ (parent[p] \in Roots \/ InTree(parent[p]))

\* C11 as stated: a live tracked popup that was never committed and whose
\* parent is not present in any tree is in the unmapped list and in no tree.
C11_Original ==
    \A p \in tracked :
        (alive[p] /\ ~committed[p] /\ ~ParentPresent(p))
        => p \in Range(unmapped_popups) /\ ~InTree(p)

\* C11 as amended: track_popup appends a popup without a declared parent to
\* the unmapped list and touches no tree; a popup with a declared parent is
\* attached to its root's tree at once, as a root node when the parent is
\* not a node of that tree. A popup of the unmapped list stays there, and in
\* no tree, over every step except its own commit and a cleanup() after its
\* death; gaining a parent does not move it.
C11_UnmappedUntilCommit ==
    [][\A p \in Popups :
        /\ (last'.op = "track_popup" /\ last'.popup = p)
           => IF parent'[p] = NoSurface
              THEN /\ unmapped_popups' = Append(unmapped_popups, p)
                   /\ nodes' = nodes /\ popup_trees' = popup_trees
              ELSE LET root == FindPopupRootSurface(p, parent')
                       up == IF parent'[p] \in Range(IterPopups(nodes[root]))
                             THEN parent'[p] ELSE root
                   IN  /\ unmapped_popups' = unmapped_popups
                       /\ p \notin Range(unmapped_popups')
                       /\ Edges(nodes'[root], root)
                            = Edges(nodes[root], root) \cup {<<up, p>>}
        /\ (/\ p \in Range(unmapped_popups)
            /\ ~(last'.op = "commit" /\ last'.surface = p)
            /\ ~(last'.op = "cleanup" /\ ~alive[p]))
           => /\ p \in Range(unmapped_popups')
              /\ \A r \in Roots : p \notin Range(IterPopups(nodes'[r]))
    ]_vars

\* C11 witness: track_popup has attached a popup whose declared parent still
\* waits in the unmapped list, while that parent stays unmapped
C11_Witness ==
    /\ last.op = "track_popup"
    /\ parent[last.popup] \in Range(unmapped_popups)
    /\ ~InTree(parent[last.popup])
    /\ InTree(last.popup) /\ ~committed[last.popup]

(* ---------------------------------------------------------------------- *)
(* C12                                                                     *)
(* ---------------------------------------------------------------------- *)
PointSub(a, b) == <<a[1] - b[1], a[2] - b[2]>>

\* the sum of the placement offsets on the path from the root node above x
\* down to x, following the parent/child pairs E of a tree hanging under top
RECURSIVE PathSum(_, _, _, _)
PathSum(E, top, x, loc) ==
    IF x = top THEN Origin
    ELSE LET up == (CHOOSE e \in E : e[2] = x)[1]
         IN  PointAdd(PathSum(E, top, up, loc), loc[x])

\* the popups of a listing with offsets
ListedPopups(list) == [i \in 1..Len(list) |-> list[i].popup]

\* C12: every popup listed by popups_for_surface(r) is reported at the sum
\* of the placement offsets of the nodes on the path from its root node down
\* to the popup itself, and when the placement of one popup p changes by d
\* the reported offsets of p and of every node below p change by exactly d
\* while every other reported offset, and the listing's order, stay the same.
C12_OffsetsArePathSums ==
    [][\A r \in Roots :
        LET before == PopupsWithOffsets(r, attached, nodes, location)
            after == PopupsWithOffsets(r, attached', nodes', location')
            E == Edges(nodes'[r], r)
        IN  /\ ListedPopups(after) = PopupsForSurface(r, attached', nodes')
            /\ \A i \in 1..Len(after) :
                 after[i].offset = PathSum(E, r, after[i].popup, location')
            /\ last'.op = "set_location"
               => LET p == last'.popup
                      d == PointSub(location'[p], location[p])
                      below == SubtreeSurfaces(nodes[r], p)
                  IN  /\ ListedPopups(after) = ListedPopups(before)
                      /\ \A i \in 1..Len(after) :
                           after[i].offset =
                               IF after[i].popup \in below
                               THEN PointAdd(before[i].offset, d)
                               ELSE before[i].offset
    ]_vars

\* C12 witness: a popup that has a child and a node beside it was moved;
\* moved popup and child both lie away from their parents' origin
C12_Witness ==
    /\ last.op = "set_location"
    /\ location[last.popup] # Origin
    /\ \E r \in Roots, c, q \in Popups :
          /\ <<last.popup, c>> \in Edges(nodes[r], r)
          /\ location[c] # Origin
          /\ q \in Range(IterPopups(nodes[r]))
          /\ q \notin SubtreeSurfaces(nodes[r], last.popup)
          /\ location[q] # Origin

(* ---------------------------------------------------------------------- *)
(* C13                                                                     *)
(* ---------------------------------------------------------------------- *)
\* what the holder of the last returned sequence reads from it now
Held == IterItems(returned, attached, nodes, location)

\* C13 as stated: the sequence popups_for_surface returns holds only
\* popups that are alive at the moment of the call.
C13_Original ==
    last.op = "popups_for_surface"
    => \A i \in 1..Len(Held) : alive[Held[i].popup]

\* C13 as amended: popups_for_surface(r) returns every node the tree of r
\* holds at the moment of the call, dead popups included, and changes
\* nothing; what the caller reads from the returned sequence stays the same
\* over every later step, whatever happens to the tree.
C13_Snapshot ==
    [][IF last'.op = "popups_for_surface"
       THEN /\ IterItems(returned', attached', nodes', location')
                 = PopupsWithOffsets(last'.surface, attached, nodes, location)
            /\ nodes' = nodes /\ attached' = attached
            /\ popup_trees' = popup_trees /\ unmapped_popups' = unmapped_popups
       ELSE IterItems(returned', attached', nodes', location') = Held
    ]_vars

\* C13 witness: a returned sequence lists a popup that was dead at the call
\* and still lists it after cleanup() has removed the popup from the tree
C13_Witness ==
    /\ last.op = "cleanup"
    /\ \E i \in 1..Len(Held) :
          /\ ~alive[Held[i].popup]
          /\ Held[i].popup \notin Range(PopupsForSurface(returned.root, attached, nodes))
    /\ PopupsForSurface(returned.root, attached, nodes) # <<>>

(* ---------------------------------------------------------------------- *)
(* C14                                                                     *)
(* ---------------------------------------------------------------------- *)
\* the children of the node of surface a (root nodes for the root surface)
ChildrenOf(forest, top, a) ==
    IF a = top THEN forest ELSE FindNodes(forest, a)[1].children

\* C14: in every tree the declared parent of every node that hangs under
\* another node is the surface of that node; track_popup or commit
\* attaching popup b whose declared parent a is a node of the root's tree
\* makes b the last child of a's node, and a popup whose declared parent is
\* no node of the tree becomes the last root node; nothing else in the
\* tree changes.
C14_ChildUnderDeclaredParent ==
    [][/\ \A r \in Roots : \A e \in Edges(nodes'[r], r) :
            e[1] # r => parent'[e[2]] = e[1]
       /\ \A b \in Popups :
            LET root == FindPopupRootSurface(b, parent')
                a == parent'[b]
                up == IF a \in Range(IterPopups(nodes[root])) THEN a ELSE root
            IN  (\/ last'.op = "track_popup" /\ last'.popup = b /\ a # NoSurface
                 \/ last'.op = "commit" /\ last'.surface = b
                    /\ b \in Range(unmapped_popups))
                => /\ ChildrenOf(nodes'[root], root, up)
                        = Append(ChildrenOf(nodes[root], root, up), NewNode(b))
                   /\ Edges(nodes'[root], root)
                        = Edges(nodes[root], root) \cup {<<up, b>>}
                   /\ Without(IterPopups(nodes'[root]), {b}) = IterPopups(nodes[root])
    ]_vars

\* C14 witness: a commit has attached popup b under its declared parent,
\* a popup that hangs under the toplevel and already had a child; b is the
\* second child
C14_Witness ==
    /\ last.op = "commit"
    /\ \E r \in Roots, a, b, c \in Popups :
          /\ last.surface = b /\ b # c
          /\ nodes[r] = <<[surface |-> a,
                           children |-> <<NewNode(c), NewNode(b)>>]>>
          /\ parent[a] = r /\ parent[b] = a

(* ---------------------------------------------------------------------- *)
(* C15                                                                     *)
(* ---------------------------------------------------------------------- *)
\* C15: commit(s) on a popup of the unmapped list takes exactly s out of
\* the list and attaches s to the tree of its root surface, leaving the
\* other trees alone, and find_popup(s) finds it afterwards; commit(s) on
\* any surface that is not in the unmapped list (a toplevel, a popup already
\* attached, a second commit) leaves the unmapped list, the tree list and
\* every tree as they were.
C15_CommitMovesToTree ==
    [][\A s \in Surfaces :
        (last'.op = "commit" /\ last'.surface = s)
        => IF s \in Range(unmapped_popups)
           THEN LET root == FindPopupRootSurface(s, parent)
                IN  /\ Range(unmapped_popups') = Range(unmapped_popups) \ {s}
                    /\ Len(unmapped_popups') = Len(unmapped_popups) - 1
                    /\ attached'[root]
                    /\ s \in Range(PopupsForSurface(root, attached', nodes'))
                    /\ s \notin Range(IterPopups(nodes[root]))
                    /\ \A r \in Roots \ {root} :
                         nodes'[r] = nodes[r] /\ attached'[r] = attached[r]
                    /\ FindPopup(s, unmapped_popups', popup_trees', nodes') = s
           ELSE /\ unmapped_popups' = unmapped_popups
                /\ nodes' = nodes /\ attached' = attached
                /\ popup_trees' = popup_trees
    ]_vars

\* C15 witness: a commit has moved a popup from the middle of the unmapped
\* list into a tree, other popups are still unmapped, and the popup is found
C15_Witness ==
    /\ last.op = "commit" /\ last.popup = last.surface
    /\ Len(unmapped_popups) >= 2
    /\ \A i \in 1..Len(unmapped_popups) : last.surface < unmapped_popups[i]
    /\ InTree(last.surface)
    /\ Found(last.surface) = last.surface

(* ---------------------------------------------------------------------- *)
(* C16                                                                     *)
(* ---------------------------------------------------------------------- *)
\* the errors grab_popup returns before it touches the seat
EarlyErrors == {"NoPopup", "DeadResource", "InvalidGrab"}

\* C16 as stated: a grab_popup call that fails with NoPopup, DeadResource
\* or InvalidGrab, or with a rejection of the chain other than
\* ParentDismissed and NotTheTopmostPopup, leaves the unmapped list, the
\* tree list, the registered grab-chain list, the trees and the seat's
\* chain as they were.
C16_Original ==
    [][(last'.op = "grab_popup" /\ last'.status \in EarlyErrors \cup {"Other"})
       => /\ unmapped_popups' = unmapped_popups
          /\ popup_trees' = popup_trees
          /\ popup_grabs' = popup_grabs
          /\ nodes' = nodes /\ attached' = attached
          /\ chain' = chain /\ dismissed' = dismissed
    ]_vars

\* C16 as amended: a grab_popup call that fails with NoPopup, DeadResource
\* or InvalidGrab changes no list, no tree and no seat; a call the chain
\* rejects for another reason than ParentDismissed and NotTheTopmostPopup
\* returns that error, sends nothing and leaves the unmapped list, the tree
\* list, the trees and the contents of the seat's chain as they were, but
\* the seat has its chain object by then and a chain that was not active is
\* appended to the manager's registered grab-chain list.
C16_FailedGrabEffects ==
    [][\A seat \in Seats :
        /\ (last'.op = "grab_popup" /\ last'.status \in EarlyErrors)
           => /\ unmapped_popups' = unmapped_popups
              /\ popup_trees' = popup_trees
              /\ popup_grabs' = popup_grabs
              /\ nodes' = nodes /\ attached' = attached
              /\ chain' = chain /\ dismissed' = dismissed
              /\ has_chain' = has_chain
        /\ (last'.op = "grab_popup" /\ last'.status = "Other")
           => /\ unmapped_popups' = unmapped_popups
              /\ popup_trees' = popup_trees
              /\ nodes' = nodes /\ attached' = attached
              /\ chain' = chain /\ dismissed' = dismissed
              /\ events' = <<>>
              /\ has_chain'[seat]
              /\ popup_grabs' = IF chain[seat] = <<>>
                                THEN Append(popup_grabs, seat) ELSE popup_grabs
    ]_vars

\* C16 witness: the first grab_popup call of the run was turned down by the
\* chain for a reason of its own; the chain is empty and registered
C16_Witness ==
    /\ last.op = "grab_popup" /\ last.status = "Other"
    /\ serials = 1
    /\ chain[Seat] = <<>> /\ has_chain[Seat]
    /\ popup_grabs = <<Seat>>

(* ---------------------------------------------------------------------- *)
(* C17                                                                     *)
(* ---------------------------------------------------------------------- *)
\* the surfaces of the dead nodes of a forest and of everything below them
DeadSubtrees(forest) ==
    UNION {SubtreeSurfaces(forest, x) : x \in {y \in Range(IterPopups(forest)) : ~alive[y]}}

\* C17: cleanup() succeeds, and from every registered tree it removes
\* exactly the dead nodes with everything below them: the nodes that stay
\* keep their parent and their order, a live popup below a dead node is
\* gone from popups_for_surface and from find_popup, and afterwards no node
\* at any depth of a registered tree is dead.
C17_CleanupDropsDeadSubtrees ==
    [][last'.op = "cleanup"
       => /\ last'.status = "Ok"
          /\ \A r \in Roots :
               Registered(r)
               => LET gone == DeadSubtrees(nodes[r])
                  IN  /\ PopupsForSurface(r, attached', nodes')
                           = Without(PopupsForSurface(r, attached, nodes), gone)
                      /\ Edges(nodes'[r], r)
                           = {e \in Edges(nodes[r], r) : e[2] \notin gone}
                      /\ \A x \in gone :
                           /\ \A q \in Roots :
                                x \notin Range(PopupsForSurface(q, attached', nodes'))
                           /\ FindPopup(x, unmapped_popups', popup_trees', nodes')
                                = NoSurface
          /\ \A i \in 1..Len(popup_trees') :
               \A x \in Range(IterPopups(nodes'[popup_trees'[i]])) : alive[x]
    ]_vars

\* C17 witness: after cleanup() a live popup whose parent popup is dead is
\* in no tree and is not found, while another popup is still in the tree
C17_Witness ==
    /\ last.op = "cleanup"
    /\ \E p \in tracked :
          /\ alive[p] /\ parent[p] \in Popups /\ ~alive[parent[p]]
          /\ ~InTree(p) /\ Found(p) = NoSurface
    /\ \E q \in tracked : alive[q] /\ InTree(q)

(* ---------------------------------------------------------------------- *)
(* C18                                                                     *)
(* ---------------------------------------------------------------------- *)
\* the tree a context is locking or has locked
TreeOf(c) == Head(pc[c].todo).root

\* C18: with the manager's owner and a holder of the root surface working
\* on the same tree, a tree's lock is held only by a context that is inside
\* one tree operation on that tree; a context that is about to lock holds
\* no lock; the tree a context has locked is still as it found it (no other
\* operation got in between); and whenever a call is in progress some
\* context can take its next step (no deadlock).
C18_LockDiscipline ==
    /\ \A r \in Roots :
         lock[r] # NoContext
         => pc[lock[r]].stage = "locked" /\ TreeOf(lock[r]) = r
    /\ \A c \in Contexts :
         pc[c].stage = "lock" => \A r \in Roots : lock[r] # c
    /\ \A c \in Contexts :
         pc[c].stage = "locked"
         => lock[TreeOf(c)] = c /\ pc[c].seen = nodes[TreeOf(c)]
    /\ (\E c \in Contexts : pc[c].stage # "idle")
       => \E d \in Contexts : ENABLED (LockTree(d) \/ UnlockTree(d))

\* C18 witness: the holder of the root surface is inside dismiss_popup on a
\* tree with popups while the manager's owner waits for the same tree's
\* lock to insert a popup
C18_Witness ==
    \E r \in Roots :
        /\ lock[r] = Holder /\ pc[Holder].handler = "dismiss_popup"
        /\ pc[Manager].stage = "lock"
        /\ Head(pc[Manager].todo) = TreeOp("insert", r)
        /\ nodes[r] # <<>>

(* ---------------------------------------------------------------------- *)
(* C19                                                                     *)
(* ---------------------------------------------------------------------- *)
\* C19 as stated: the manager's tree list holds the tree of every root
\* surface at most once.
C19_Original == NoDuplicates(popup_trees)

(* ---------------------------------------------------------------------- *)
(* C20                                                                     *)
(* ---------------------------------------------------------------------- *)
\* C20: every tree that is attached to a root surface and holds a node is
\* in the manager's tree list, and every popup popups_for_surface reports
\* for a root surface is found by find_popup.
C20_NonEmptyTreeRegistered ==
    \A r \in Roots :
        /\ (attached[r] /\ nodes[r] # <<>>) => Registered(r)
        /\ \A x \in Range(PopupsForSurface(r, attached, nodes)) : Found(x) = x

\* C20 witness: a tree was emptied, dropped from the list by cleanup() and
\* filled again: an earlier popup of the root is gone, a later one is
\* reported and found, and the tree is in the list once (a tree that never
\* left the list is in it twice, see C19)
C20_Witness ==
    \E r \in Roots, p, q \in tracked :
        /\ p < q /\ parent[p] = r /\ ~InTree(p) /\ Found(p) = NoSurface
        /\ q \in Range(PopupsForSurface(r, attached, nodes)) /\ Found(q) = q
        /\ popup_trees = <<r>>

====
